---- MODULE Spec2Model ----
(***************************************************************************)
(* A model of the two example notebooks of pyodesys,                       *)
(*   examples/van_der_pol_interpolation.ipynb   (nb = "vdp")               *)
(*   examples/transformations.ipynb             (nb = "trans")             *)
(* Each notebook is a linear script of code cells run by one kernel.  The  *)
(* model keeps the kernel's global bindings, the system objects and what   *)
(* each integrate call left in them, the result bundles, and the frame of  *)
(* the helper (solve_and_plot, integrate_and_plot) that is executing.      *)
(* The two pure callbacks vdp1 and rmsd are operators, applied under       *)
(* specifications of their own.                                            *)
(***************************************************************************)
EXTENDS Integers, Sequences, FiniteSets, TLC

VARIABLES
    nb,       \* the notebook the kernel runs: "vdp", "trans" ("none": a pure function is applied)
    cell,     \* index (in the notebook's cell list) of the code cell being executed
    stmt,     \* index of the next statement of that cell
    pc,       \* "top": at the cell's top level; else the helper statement to execute next
    env,      \* the kernel's global bindings: name -> value
    objs,     \* the system objects constructed so far (a sequence, the index is the object's id)
    results,  \* one record per integrate call that returned (the index is the bundle's id)
    frame,    \* the helper's local variables (its last invocation)
    err,      \* the exception that ended the run, [kind |-> "none"] while there is none
    last,     \* the operation executed by the last step (what it read, what it consumed)
    arg,      \* pure-function specifications: the input
    ret       \* pure-function specifications: the output

vars == <<nb, cell, stmt, pc, env, objs, results, frame, err, last, arg, ret>>

kernel == <<nb, cell, stmt, pc, env, objs, results, frame, err, last>>

(***************************************************************************)
(* Bounds of the model.                                                    *)
(***************************************************************************)
MaxAbs == 2      \* vdp1: state components range over -MaxAbs..MaxAbs
MaxMu == 3       \* vdp1: the parameter mu ranges over 0..MaxMu
MaxX == 2        \* vdp1: the independent variable ranges over 0..MaxX
MaxLen == 5      \* rmsd: the argument has 0..MaxLen components
MaxVal == 2      \* rmsd: each component ranges over 0..MaxVal (units of 1e-4)
MaxNderiv == 2   \* helper calls with free arguments: nderiv ranges over 0..MaxNderiv
MaxCalls == 1    \* helper calls with free arguments: number of calls per run

(***************************************************************************)
(* vdp1 = lambda x, y, p: [y[1], -y[0] + p[0]*y[1]*(1 - y[0]**2)]           *)
(* Python indexes from 0, sequences here from 1.  Exact arithmetic.        *)
(***************************************************************************)
vdp1_sign(x, y, p) == <<y[2], y[1] + p[1] * y[2] * (1 - y[1] * y[1])>>

vdp1(x, y, p) == <<y[2], (-y[1]) + (p[1] * y[2]) * (1 - y[1] * y[1])>>

(***************************************************************************)
(* ref (transformations.ipynb) in units of 1e-4, rounded:                  *)
(* [9.11881965554516244e-04, 8.55315762040415040e-02,                      *)
(*  3.07983556726319885e-01, 6.05572985104084083e-01]                      *)
(***************************************************************************)
ref == <<9, 855, 3080, 6056>>

\* Python's s[start:] for a sequence s: a negative start counts from the end,
\* and the start is clamped to 0..len(s).
PySliceFrom(s, start) ==
    LET n == Len(s)
        st0 == IF start < 0 THEN start + n ELSE start
        st == IF st0 < 0 THEN 0 ELSE IF st0 > n THEN n ELSE st0
    IN  SubSeq(s, st + 1, n)

\* numpy's a - b for one-dimensional operands: elementwise, an operand of
\* length 1 is broadcast, any other length mismatch raises ValueError.
NpCanSub(a, b) == Len(a) = Len(b) \/ Len(a) = 1 \/ Len(b) = 1

NpSub(a, b) ==
    IF Len(a) = Len(b) THEN [i \in 1..Len(a) |-> a[i] - b[i]]
    ELSE IF Len(a) = 1 THEN [i \in 1..Len(b) |-> a[1] - b[i]]
    ELSE [i \in 1..Len(a) |-> a[i] - b[1]]

\* np.sum(d**2)
RECURSIVE NpSumSq(_)
NpSumSq(d) == IF Len(d) = 0 THEN 0 ELSE d[1] * d[1] + NpSumSq(Tail(d))

(***************************************************************************)
(* def rmsd(x):                                                            *)
(*     diff = np.array(ref[4-len(x):]) - x                                 *)
(*     return np.sum(diff**2)**0.5                                         *)
(* The result is kept exact: [sqrt |-> s] stands for the square root of s. *)
(***************************************************************************)
rmsd_head(x) ==
    LET r == SubSeq(ref, 1, IF Len(x) < 4 THEN Len(x) ELSE 4)
    IN  IF NpCanSub(r, x)
        THEN [kind |-> "value", sqrt |-> NpSumSq(NpSub(r, x))]
        ELSE [kind |-> "ValueError", sqrt |-> 0]

rmsd(x) ==
    LET diff == PySliceFrom(ref, 4 - Len(x))
    IN  IF NpCanSub(diff, x)
        THEN [kind |-> "value", sqrt |-> NpSumSq(NpSub(diff, x))]
        ELSE [kind |-> "ValueError", sqrt |-> 0]

(***************************************************************************)
(* Values bound to names.                                                  *)
(***************************************************************************)
Unbound == [t |-> "unbound"]
Code == [t |-> "code"]                   \* a module, class, function or lambda
Lit(v) == [t |-> "lit", v |-> v]         \* a literal, its numbers as written
Obj(i) == [t |-> "obj", id |-> i]        \* a system object
Out(i, part) == [t |-> "out", id |-> i, part |-> part]   \* xout / yout of bundle i
Info(i, d) == [t |-> "info", id |-> i, d |-> d]          \* a diagnostics mapping
Plot(i, interp, part) == [t |-> "plot", id |-> i, interp |-> interp, part |-> part]

NoErr == [kind |-> "none"]
NoOp == [op |-> "none", cell |-> 0, obj |-> 0, res |-> 0, reads |-> {}, bound |-> {}]
NoFrame == [fn |-> "none"]

\* The kernel while a pure function is applied on its own.
KernelIdle ==
    /\ nb = "none" /\ cell = 0 /\ stmt = 0 /\ pc = "top"
    /\ env = <<>> /\ objs = <<>> /\ results = <<>>
    /\ frame = NoFrame /\ err = NoErr /\ last = NoOp

Pending == [kind |-> "pending"]

(***************************************************************************)
(* vdp1 applied to one input.                                              *)
(***************************************************************************)
InitVdp1 ==
    /\ KernelIdle
    /\ arg \in [x : 0..MaxX,
                y : [1..2 -> (0 - MaxAbs)..MaxAbs],
                p : [1..1 -> 0..MaxMu]]
    /\ ret = Pending

ApplyVdp1 ==
    /\ ret = Pending
    /\ ret' = [kind |-> "value", v |-> vdp1(arg.x, arg.y, arg.p)]
    /\ UNCHANGED <<kernel, arg>>

SpecVdp1 == InitVdp1 /\ [][ApplyVdp1]_vars

(***************************************************************************)
(* rmsd applied to one input.                                              *)
(***************************************************************************)
InitRmsd ==
    /\ KernelIdle
    /\ arg \in [x : UNION {[1..n -> 0..MaxVal] : n \in 0..MaxLen}]
    /\ ret = Pending

ApplyRmsd ==
    /\ ret = Pending
    /\ ret' = rmsd(arg.x)
    /\ UNCHANGED <<kernel, arg>>

SpecRmsd == InitRmsd /\ [][ApplyRmsd]_vars

(***************************************************************************)
(* The notebooks as programs: each code cell is a sequence of statements.  *)
(* "reads" are the global names a statement evaluates.                     *)
(***************************************************************************)
VdpNames == {"itertools", "np", "sp", "plt", "SymbolicSys", "vdp1", "y0", "mu",
             "tend", "odesys1", "xout", "yout", "solve_and_plot", "info",
             "xplot", "yplot", "d2fdx2", "scipy"}

TransNames == {"np", "plt", "sp", "OdeSys", "SymbolicSys", "symmetricsys", "f",
               "k", "y0", "tend", "ref", "rmsd", "odesys", "tout", "yout",
               "info", "integrate_and_plot", "y0aug", "logexp", "LogLogSys",
               "tsys", "f2", "tsys2", "PartiallySolvedSystem", "psys",
               "RK4_example_integartor"}

AllNames == VdpNames \cup TransNames

\* The literal bound to a name (the empty sequence when it holds no literal).
V(n) == IF env[n].t = "lit" THEN env[n].v ELSE <<>>
At(s, i) == IF i \in DOMAIN s THEN s[i] ELSE "?"
\* The object a name is bound to (0 when it is bound to none).
O(n) == IF env[n].t = "obj" THEN env[n].id ELSE 0

\* Independent-variable grids, as the notebooks write them.
Linspace(a, b, n) == [form |-> "linspace", start |-> a, end |-> At(b, 1), n |-> n]
Pair(a, b) == [form |-> "pair", start |-> a, end |-> At(b, 1)]
Scalar(b) == [form |-> "scalar", end |-> At(b, 1)]

CodeBinds(S) == [n \in S |-> Code]

Bind(reads, binds) == [k |-> "bind", reads |-> reads, binds |-> binds]
Use(reads) == [k |-> "use", reads |-> reads]
Construct(reads, target, cls, of, roots) ==
    [k |-> "construct", reads |-> reads, target |-> target, cls |-> cls,
     of |-> of, roots |-> roots]
Integrate(reads, obj, grid, y0, params, kw, targets) ==
    [k |-> "integrate", reads |-> reads, obj |-> obj, grid |-> grid, y0 |-> y0,
     params |-> params, kw |-> kw, targets |-> targets]
PlotResult(reads, obj, targets) ==
    [k |-> "plot", reads |-> reads, obj |-> obj, targets |-> targets]
PopKey(name, key) == [k |-> "pop", reads |-> {name}, name |-> name, key |-> key]
Rmsd(reads, name) == [k |-> "rmsd", reads |-> reads, name |-> name]
Call(reads, fn, args, targets) ==
    [k |-> "call", reads |-> reads, fn |-> fn, args |-> args, targets |-> targets]

\* The arguments of solve_and_plot(sparse=0, roots=None, nderiv=0, interpolate=None, **kwargs)
SpArgs(sparse, roots, nderiv, interpolate, kwargs) ==
    [sparse |-> sparse, roots |-> roots, nderiv |-> nderiv,
     interpolate |-> interpolate, kwargs |-> kwargs]

\* The arguments of integrate_and_plot(odesys, integrator, tout, y0, k,
\*                                     interpolate=False, stiffness=False, **kwargs)
IpArgs(odesys, integrator, tout, y0, k, interpolate, stiffness, kwargs) ==
    [odesys |-> odesys, integrator |-> integrator, tout |-> tout, y0 |-> y0,
     k |-> k, interpolate |-> interpolate, stiffness |-> stiffness, kwargs |-> kwargs]

SpTargets == <<"info", "xplot", "yplot">>

(***************************************************************************)
(* van_der_pol_interpolation.ipynb                                         *)
(***************************************************************************)
VdpCell1 == <<Bind({}, CodeBinds({"itertools", "np", "sp", "plt", "SymbolicSys"})),
              Use({"sp"})>>

VdpCell3 == <<Bind({}, CodeBinds({"vdp1"}))>>

VdpCell4 == <<Bind({}, [n \in {"y0", "mu", "tend"} |->
                          CASE n = "y0" -> Lit(<<"0", "1">>)
                            [] n = "mu" -> Lit(<<"2.5">>)
                            [] n = "tend" -> Lit(<<"25">>)])>>

VdpCell5 == <<Construct({"SymbolicSys", "vdp1"}, "odesys1", "SymbolicSys", "vdp1", "None"),
              Use({"odesys1"})>>

VdpCell6 == <<Integrate({"odesys1", "np", "tend", "y0", "mu"}, "odesys1",
                        Linspace("0", V("tend"), "30"), V("y0"), V("mu"),
                        {"name"}, <<>>),
              PlotResult({"odesys1"}, "odesys1", <<"xout", "yout">>)>>

VdpCell8 == <<Bind({}, CodeBinds({"solve_and_plot"}))>>

VdpCell9 == <<Call({"solve_and_plot"}, "solve_and_plot",
                   SpArgs("-1", "None", 0, "None", {}), SpTargets),
              Use({"info"})>>

VdpCell11 == <<Call({"solve_and_plot", "odesys1"}, "solve_and_plot",
                    SpArgs("-1", "exprs", 0, "None", {"lines"}), SpTargets),
               Use({"info"})>>

VdpCell13 == <<Call({"solve_and_plot", "odesys1"}, "solve_and_plot",
                    SpArgs("-1", "exprs", 1, "None", {}), SpTargets),
               Use({"info"})>>

VdpCell15 == <<Call({"solve_and_plot", "odesys1"}, "solve_and_plot",
                    SpArgs("-1", "exprs", 2, "None", {}), SpTargets),
               Use({"info"})>>

VdpCell17_stale == <<Bind({"odesys1"}, CodeBinds({"d2fdx2"})), Use({"d2fdx2", "info"})>>

VdpCell17 == <<Bind({"odesys1"}, CodeBinds({"d2fdx2"})), Use({"d2fdx2"})>>

VdpCell19 == <<Call({"solve_and_plot", "odesys1", "d2fdx2"}, "solve_and_plot",
                    SpArgs("-1", "exprs+d2fdx2", 0, "None", {}), SpTargets),
               Use({"info"})>>

VdpCell21 == <<Call({"solve_and_plot", "odesys1", "d2fdx2"}, "solve_and_plot",
                    SpArgs("-1", "exprs+d2fdx2", 1, "None", {}), SpTargets),
               Use({"info"})>>

VdpCell23 == <<Call({"solve_and_plot", "odesys1", "d2fdx2"}, "solve_and_plot",
                    SpArgs("-1", "exprs+d2fdx2", 2, "None", {}), SpTargets),
               Use({"info"})>>

VdpCell24 == <<Bind({}, CodeBinds({"scipy"})),
               Call({"solve_and_plot", "odesys1", "d2fdx2", "scipy"}, "solve_and_plot",
                    SpArgs("-1", "exprs+d2fdx2", 0, "True", {"interp_from_deriv"}),
                    SpTargets)>>

VdpCodeCells == {1, 3, 4, 5, 6, 8, 9, 11, 13, 15, 17, 19, 21, 23, 24}

VdpProgram(c) ==
    CASE c = 1 -> VdpCell1 [] c = 3 -> VdpCell3 [] c = 4 -> VdpCell4
      [] c = 5 -> VdpCell5 [] c = 6 -> VdpCell6 [] c = 8 -> VdpCell8
      [] c = 9 -> VdpCell9 [] c = 11 -> VdpCell11 [] c = 13 -> VdpCell13
      [] c = 15 -> VdpCell15 [] c = 17 -> VdpCell17 [] c = 19 -> VdpCell19
      [] c = 21 -> VdpCell21 [] c = 23 -> VdpCell23 [] c = 24 -> VdpCell24

(***************************************************************************)
(* transformations.ipynb                                                   *)
(***************************************************************************)
TransCell0 == <<Bind({}, CodeBinds({"np", "plt", "sp", "OdeSys", "SymbolicSys",
                                    "symmetricsys"})),
                Use({"sp"})>>

TransCell2 == <<Bind({}, [n \in {"f", "k", "y0", "tend"} |->
                            CASE n = "f" -> Code
                              [] n = "k" -> Lit(<<"7", "3", "2", "0">>)
                              [] n = "y0" -> Lit(<<"1", "0", "0", "0">>)
                              [] n = "tend" -> Lit(<<"1.0">>)])>>

TransCell4 == <<Bind({}, [n \in {"ref", "rmsd"} |->
                            CASE n = "ref" -> Lit(<<"9.11881965554516244e-04",
                                                    "8.55315762040415040e-02",
                                                    "3.07983556726319885e-01",
                                                    "6.05572985104084083e-01">>)
                              [] n = "rmsd" -> Code])>>

TransCell6_plotfirst ==
    <<Construct({"OdeSys", "f"}, "odesys", "OdeSys", "f", "None"),
      PlotResult({"odesys", "plt"}, "odesys", <<>>),
      Integrate({"odesys", "np", "tend", "y0", "k"}, "odesys",
                Linspace("0", V("tend"), "50"), V("y0"), V("k"), {},
                <<"tout", "yout", "info">>),
      PopKey("info", "internal_xout"),
      PopKey("info", "internal_yout"),
      Rmsd({"info", "rmsd", "yout", "np", "ref"}, "yout")>>

TransCell6 ==
    <<Construct({"OdeSys", "f"}, "odesys", "OdeSys", "f", "None"),
      Integrate({"odesys", "np", "tend", "y0", "k"}, "odesys",
                Linspace("0", V("tend"), "50"), V("y0"), V("k"), {},
                <<"tout", "yout", "info">>),
      PlotResult({"odesys", "plt"}, "odesys", <<>>),
      PopKey("info", "internal_xout"),
      PopKey("info", "internal_yout"),
      Rmsd({"info", "rmsd", "yout", "np", "ref"}, "yout")>>

TransCell8 == <<Construct({"SymbolicSys", "f"}, "odesys", "SymbolicSys", "f", "None"),
                Use({"odesys"})>>

TransCell10 == <<Bind({}, CodeBinds({"integrate_and_plot"}))>>

TransCell12 ==
    <<Call({"integrate_and_plot", "odesys", "np", "tend", "y0", "k"}, "integrate_and_plot",
           IpArgs(O("odesys"), "scipy", Linspace("0", V("tend"), "50"), V("y0"), V("k"),
                  FALSE, FALSE, {"first_step", "name", "method"}), <<>>)>>

TransCell14 == <<Use({"odesys", "y0", "k"})>>

TransCell16 ==
    <<Call({"integrate_and_plot", "odesys", "tend", "y0", "k"}, "integrate_and_plot",
           IpArgs(O("odesys"), "cvode", Scalar(V("tend")), V("y0"), V("k"),
                  FALSE, FALSE, {"atol", "rtol", "method"}), <<>>)>>

TransCell18 ==
    <<Bind({}, [n \in {"y0aug"} |-> Lit(<<"1", "1e-20", "1e-20", "1e-20">>)]),
      Bind({"sp"}, CodeBinds({"logexp"})),
      Bind({"symmetricsys", "logexp"}, CodeBinds({"LogLogSys"}))>>

TransCell20 == <<Construct({"LogLogSys", "f", "sp"}, "tsys", "LogLogSys", "f", "None"),
                 Use({"tsys"})>>

TransCell22 ==
    <<Call({"integrate_and_plot", "tsys", "tend", "y0aug", "k"}, "integrate_and_plot",
           IpArgs(O("tsys"), "cvode", Pair("1e-12", V("tend")), V("y0aug"), V("k"),
                  FALSE, FALSE, {"atol", "rtol", "first_step"}), <<>>)>>

TransCell23 ==
    <<Call({"integrate_and_plot", "tsys", "tend", "y0aug", "k"}, "integrate_and_plot",
           IpArgs(O("tsys"), "odeint", Pair("1e-12", V("tend")), V("y0aug"), V("k"),
                  FALSE, FALSE, {"atol", "rtol", "first_step"}), <<>>)>>

TransCell26 == <<Bind({}, CodeBinds({"f2"})),
                 Construct({"LogLogSys", "f2", "sp"}, "tsys2", "LogLogSys", "f2", "None"),
                 Use({"tsys2"})>>

TransCell27 ==
    <<Call({"integrate_and_plot", "tsys2", "tend", "y0aug"}, "integrate_and_plot",
           IpArgs(O("tsys2"), "cvode", Pair("1e-12", V("tend")), PySliceFrom(V("y0aug"), 1),
                  <<At(V("y0aug"), 1), "7", "3", "2", "1">>,
                  FALSE, TRUE, {"atol", "rtol", "first_step"}), <<>>)>>

TransCell28 ==
    <<Call({"integrate_and_plot", "odesys", "tend", "y0aug"}, "integrate_and_plot",
           IpArgs(O("odesys"), "cvode", Pair("1e-12", V("tend")), V("y0aug"),
                  <<"7", "3", "2", "1">>,
                  FALSE, TRUE, {"atol", "rtol", "first_step"}), <<>>)>>

TransCell30 ==
    <<Bind({}, CodeBinds({"PartiallySolvedSystem"})),
      Construct({"PartiallySolvedSystem", "odesys", "sp"}, "psys",
                "PartiallySolvedSystem", "f", "None"),
      Use({"psys"})>>

TransCell31 ==
    <<Call({"integrate_and_plot", "psys", "tend", "y0aug"}, "integrate_and_plot",
           IpArgs(O("psys"), "cvode", Pair("1e-12", V("tend")), V("y0aug"),
                  <<"7", "3", "2", "1">>,
                  FALSE, TRUE, {"atol", "rtol", "first_step"}), <<>>)>>

TransCell33 == <<Bind({}, CodeBinds({"RK4_example_integartor"}))>>

TransCell34 ==
    <<Call({"integrate_and_plot", "odesys", "RK4_example_integartor", "tend", "y0aug", "k"},
           "integrate_and_plot",
           IpArgs(O("odesys"), "RK4_example_integartor", Pair("1e-12", V("tend")),
                  V("y0aug"), V("k"), FALSE, FALSE, {"atol", "rtol", "first_step"}),
           <<>>)>>

TransCell35 ==
    <<Call({"integrate_and_plot", "tsys", "RK4_example_integartor", "tend", "y0aug", "k"},
           "integrate_and_plot",
           IpArgs(O("tsys"), "RK4_example_integartor", Pair("1e-12", V("tend")),
                  V("y0aug"), V("k"), FALSE, FALSE, {"atol", "rtol", "first_step"}),
           <<>>)>>

TransCodeCells == {0, 2, 4, 6, 8, 10, 12, 14, 16, 18, 20, 22, 23, 26, 27, 28, 30, 31,
                   33, 34, 35}

TransProgram(c) ==
    CASE c = 0 -> TransCell0 [] c = 2 -> TransCell2 [] c = 4 -> TransCell4
      [] c = 6 -> TransCell6 [] c = 8 -> TransCell8 [] c = 10 -> TransCell10
      [] c = 12 -> TransCell12 [] c = 14 -> TransCell14 [] c = 16 -> TransCell16
      [] c = 18 -> TransCell18 [] c = 20 -> TransCell20 [] c = 22 -> TransCell22
      [] c = 23 -> TransCell23 [] c = 26 -> TransCell26 [] c = 27 -> TransCell27
      [] c = 28 -> TransCell28 [] c = 30 -> TransCell30 [] c = 31 -> TransCell31
      [] c = 33 -> TransCell33 [] c = 34 -> TransCell34 [] c = 35 -> TransCell35

CodeCells(n) == IF n = "vdp" THEN VdpCodeCells ELSE TransCodeCells
Program(n, c) == IF n = "vdp" THEN VdpProgram(c) ELSE TransProgram(c)

Min(S) == CHOOSE x \in S : \A y \in S : x <= y
FirstCell(n) == Min(CodeCells(n))
\* The code cell after c; a number that is no code cell when c is the last one.
NextCell(n, c) ==
    IF \E d \in CodeCells(n) : d > c THEN Min({d \in CodeCells(n) : d > c}) ELSE c + 1

(***************************************************************************)
(* The library as the notebooks use it.  A system object keeps the bundle  *)
(* of its last integrate call (transformations.ipynb reads                 *)
(* odesys.internal_xout after odesys.integrate; plot_result() and          *)
(* stiffness() take no data argument).  integrate returns                  *)
(* (xout, yout, info); info holds 'internal_xout' and 'internal_yout'      *)
(* (popped without a default) and may hold 'root_indices' (popped with a   *)
(* default).  Any library call may raise.                                  *)
(***************************************************************************)
NewObject(cls, of, roots) == [cls |-> cls, of |-> of, roots |-> roots, internal |-> 0]

InfoKeys(hasRoots) ==
    {"internal_xout", "internal_yout", "success", "nfev"}
        \cup (IF hasRoots THEN {"root_indices"} ELSE {})

\* The diagnostics of bundle i: every entry is tagged with the bundle.
NewInfo(i, hasRoots) == [key \in InfoKeys(hasRoots) |-> i]

NewResult(o, grid, y0, params, kw) ==
    [obj |-> o, cell |-> cell, grid |-> grid, y0 |-> y0, params |-> params, kw |-> kw]

\* dict.pop(key, None)
PopDefault(d, key) == [x \in (DOMAIN d) \ {key} |-> d[x]]

Range(q) == {q[i] : i \in DOMAIN q}

\* d.pop(key) for each key of a sequence, in turn
RECURSIVE PopAll(_, _)
PopAll(d, keys) == IF keys = <<>> THEN d ELSE PopAll(PopDefault(d, Head(keys)), Tail(keys))

\* Python's truth value of the helper's local `interpolate`.
Truthy(v) == v = "True"
PyBool(b) == IF b THEN "True" ELSE "False"

\* The exception handlers that enclose a statement: neither notebook has any.
Handlers_swallow(at) == IF at \in {"sp_plot", "ip_plot1"} THEN {"except"} ELSE {}

Handlers(at) == {}

(***************************************************************************)
(* Bookkeeping shared by the steps.                                        *)
(***************************************************************************)
ResOf(v) == IF v.t \in {"out", "info", "plot"} THEN {v.id} ELSE {}
GlobalRes == UNION {ResOf(env[n]) : n \in AllNames}
LocalRes ==
    IF frame.fn = "none" \/ frame.returned THEN {}
    ELSE UNION {ResOf(frame.locals[n]) : n \in DOMAIN frame.locals}

\* The operation of a step: on which object, the bundle it produced or
\* consumed, the bundles whose data it read, and the bundles that variables
\* (global or local) held when it ran.
Ev(op, o, r, reads) ==
    [op |-> op, cell |-> cell, obj |-> o, res |-> r, reads |-> reads,
     bound |-> GlobalRes \cup LocalRes]

Missing(reads) == {n \in reads : env[n].t = "unbound"}

Raise(kind, op) == [kind |-> kind, op |-> op, cell |-> cell, at |-> pc]

Rebind(binds) == [n \in AllNames |-> IF n \in DOMAIN binds THEN binds[n] ELSE env[n]]

Cur == Program(nb, cell)[stmt]

Running == nb \in {"vdp", "trans"} /\ err = NoErr

AtTop(k) == Running /\ pc = "top" /\ cell \in CodeCells(nb) /\ Cur.k = k

Advance ==
    IF stmt < Len(Program(nb, cell))
    THEN cell' = cell /\ stmt' = stmt + 1
    ELSE cell' = NextCell(nb, cell) /\ stmt' = 1

\* An unbound name: NameError ends the run.
NameError ==
    /\ err' = Raise("NameError", "name")
    /\ last' = Ev("name", 0, 0, {})
    /\ UNCHANGED <<nb, cell, stmt, pc, env, objs, results, frame, arg, ret>>

\* A library call at top level raises: the error ends the run.
TopRaise(op, o) ==
    /\ err' = Raise("LibraryError", op)
    /\ last' = Ev(op, o, 0, {})
    /\ UNCHANGED <<nb, cell, stmt, pc, env, objs, results, frame, arg, ret>>

(***************************************************************************)
(* Top-level statements.                                                   *)
(***************************************************************************)
TopBind ==
    /\ AtTop("bind")
    /\ IF Missing(Cur.reads) # {} THEN NameError
       ELSE /\ env' = Rebind(Cur.binds)
            /\ Advance
            /\ last' = Ev("bind", 0, 0, {})
            /\ UNCHANGED <<nb, pc, objs, results, frame, err, arg, ret>>

TopUse ==
    /\ AtTop("use")
    /\ IF Missing(Cur.reads) # {} THEN NameError
       ELSE /\ Advance
            /\ last' = Ev("use", 0, 0, UNION {ResOf(env[n]) : n \in Cur.reads})
            /\ UNCHANGED <<nb, pc, env, objs, results, frame, err, arg, ret>>

TopConstruct ==
    /\ AtTop("construct")
    /\ \E raised \in BOOLEAN :
        IF Missing(Cur.reads) # {} THEN NameError
        ELSE IF raised THEN TopRaise("construct", 0)
        ELSE /\ objs' = Append(objs, NewObject(Cur.cls, Cur.of, Cur.roots))
             /\ env' = Rebind([n \in {Cur.target} |-> Obj(Len(objs) + 1)])
             /\ Advance
             /\ last' = Ev("construct", Len(objs) + 1, 0, {})
             /\ UNCHANGED <<nb, pc, results, frame, err, arg, ret>>

TopIntegrate ==
    /\ AtTop("integrate")
    /\ \E raised \in BOOLEAN, hasRoots \in BOOLEAN :
        IF Missing(Cur.reads) # {} THEN NameError
        ELSE IF raised THEN TopRaise("integrate", O(Cur.obj))
        ELSE LET o == O(Cur.obj)
                 i == Len(results) + 1
                 t == Cur.targets
             IN  /\ results' = Append(results,
                        NewResult(o, Cur.grid, Cur.y0, Cur.params, Cur.kw))
                 /\ objs' = [objs EXCEPT ![o].internal = i]
                 /\ env' = IF t = <<>> THEN env
                           ELSE Rebind([n \in {t[1], t[2], t[3]} |->
                                    IF n = t[1] THEN Out(i, "xout")
                                    ELSE IF n = t[2] THEN Out(i, "yout")
                                    ELSE Info(i, NewInfo(i, hasRoots))])
                 /\ Advance
                 /\ last' = Ev("integrate", o, i, {})
                 /\ UNCHANGED <<nb, pc, frame, err, arg, ret>>

TopPlot ==
    /\ AtTop("plot")
    /\ \E raised \in BOOLEAN :
        IF Missing(Cur.reads) # {} THEN NameError
        ELSE LET o == O(Cur.obj)
                 i == objs[o].internal
                 t == Cur.targets
             IN  IF raised \/ i = 0 THEN TopRaise("plot_result", o)
                 ELSE /\ env' = IF t = <<>> THEN env
                                ELSE Rebind([n \in {t[1], t[2]} |->
                                         IF n = t[1] THEN Plot(i, FALSE, "x")
                                         ELSE Plot(i, FALSE, "y")])
                      /\ Advance
                      /\ last' = Ev("plot_result", o, i, {i})
                      /\ UNCHANGED <<nb, pc, objs, results, frame, err, arg, ret>>

TopPop ==
    /\ AtTop("pop")
    /\ IF Missing(Cur.reads) # {} THEN NameError
       ELSE LET v == env[Cur.name]
            IN  IF v.t # "info" \/ Cur.key \notin DOMAIN v.d
                THEN /\ err' = Raise("KeyError", "pop")
                     /\ last' = Ev("pop", 0, 0, ResOf(v))
                     /\ UNCHANGED <<nb, cell, stmt, pc, env, objs, results, frame, arg, ret>>
                ELSE /\ env' = Rebind([n \in {Cur.name} |->
                                          Info(v.id, PopDefault(v.d, Cur.key))])
                     /\ Advance
                     /\ last' = Ev("pop", 0, v.id, {v.id})
                     /\ UNCHANGED <<nb, pc, objs, results, frame, err, arg, ret>>

\* info, rmsd(yout[-1, :]): the error of the final state of the bundle that
\* yout belongs to.
TopRmsd ==
    /\ AtTop("rmsd")
    /\ IF Missing(Cur.reads) # {} THEN NameError
       ELSE LET i == env[Cur.name].id
            IN  /\ Advance
                /\ last' = Ev("rmsd", results[i].obj, i, {i} \cup ResOf(env["info"]))
                /\ UNCHANGED <<nb, pc, env, objs, results, frame, err, arg, ret>>

(***************************************************************************)
(* Helper frames.  The local `interpolate` is "None", "True" or "False";   *)
(* info0, calls, passed and raisedAt record what happened in the call.     *)
(***************************************************************************)
SpLocals == {"odesys2", "xout2", "yout2", "info2", "xplot", "yplot", "xref", "yref",
             "inforef", "ydiff"}
IpLocals == {"xout", "yout", "info", "ratios"}

NewFrame(fn, args, targets, free) ==
    [fn |-> fn, args |-> args, targets |-> targets, free |-> free,
     interpolate |-> IF fn = "solve_and_plot" THEN args.interpolate
                     ELSE PyBool(args.interpolate),
     locals |-> [n \in (IF fn = "solve_and_plot" THEN SpLocals ELSE IpLocals) |-> Unbound],
     info0 |-> <<>>, calls |-> <<>>, rows |-> 0, cols |-> 0, height |-> 0,
     panels |-> 0, passed |-> "unset", raisedAt |-> "none",
     returned |-> FALSE, retval |-> <<>>]

Entry(fn) == IF fn = "solve_and_plot" THEN "sp_construct" ELSE "ip_figure"

SpOrder == <<"sp_construct", "sp_integrate", "sp_pop_root", "sp_default", "sp_figure",
             "sp_plot", "sp_ref", "sp_error", "sp_pops", "sp_return">>
IpOrder == <<"ip_figure", "ip_integrate", "ip_plot1", "ip_plot2", "ip_stiffness",
             "ip_ratios", "ip_pops", "ip_return">>

\* The statement that follows `at` in the helper's text.
After(at) ==
    LET ord == IF \E i \in DOMAIN SpOrder : SpOrder[i] = at THEN SpOrder ELSE IpOrder
        i == CHOOSE j \in DOMAIN ord : ord[j] = at
    IN  ord[i + 1]

Loc(n) == frame.locals[n]
InHelper(at) == Running /\ pc = at

TopCall ==
    /\ AtTop("call")
    /\ IF Missing(Cur.reads) # {} THEN NameError
       ELSE /\ frame' = NewFrame(Cur.fn, Cur.args, Cur.targets, FALSE)
            /\ pc' = Entry(Cur.fn)
            /\ last' = Ev("call", 0, 0, {})
            /\ UNCHANGED <<nb, cell, stmt, env, objs, results, err, arg, ret>>

\* A library call inside a helper raises.  Without a handler the error
\* leaves the helper and the cell; nothing else of the helper runs.
HelperRaise(op, o) ==
    /\ frame' = [frame EXCEPT !.raisedAt = pc, !.calls = Append(@, op)]
    /\ last' = Ev(op, o, 0, {})
    /\ IF Handlers(pc) = {}
       THEN err' = Raise("LibraryError", op) /\ pc' = pc
       ELSE err' = err /\ pc' = After(pc)
    /\ UNCHANGED <<nb, cell, stmt, env, objs, results, arg, ret>>

HelperKeyError ==
    /\ err' = Raise("KeyError", "pop")
    /\ last' = Ev("pop", 0, 0, {})
    /\ UNCHANGED <<nb, cell, stmt, pc, env, objs, results, frame, arg, ret>>

\* A helper statement that calls nothing in the library.
Step(at, fr, ev) ==
    /\ frame' = fr
    /\ pc' = at
    /\ last' = ev
    /\ UNCHANGED <<nb, cell, stmt, env, objs, results, err, arg, ret>>

\* return: the call statement binds its targets and the cell goes on.
Return(fr, binds, ev) ==
    /\ frame' = fr
    /\ pc' = "top"
    /\ env' = Rebind(binds)
    /\ last' = ev
    /\ IF frame.free THEN cell' = cell /\ stmt' = stmt + 1 ELSE Advance
    /\ UNCHANGED <<nb, objs, results, err, arg, ret>>

(***************************************************************************)
(* solve_and_plot (van_der_pol_interpolation.ipynb)                        *)
(***************************************************************************)
\* odesys2 = SymbolicSys(zip(odesys1.dep, odesys1.exprs), odesys1.indep,
\*                       odesys1.params, roots=roots)
SpConstruct ==
    /\ InHelper("sp_construct")
    /\ \E raised \in BOOLEAN :
        IF Missing({"SymbolicSys", "odesys1"}) # {} THEN NameError
        ELSE IF raised THEN HelperRaise("construct", 0)
        ELSE /\ objs' = Append(objs, NewObject("SymbolicSys", objs[O("odesys1")].of,
                                               frame.args.roots))
             /\ frame' = [frame EXCEPT !.locals["odesys2"] = Obj(Len(objs) + 1),
                                       !.calls = Append(@, "construct")]
             /\ pc' = "sp_integrate"
             /\ last' = Ev("construct", Len(objs) + 1, 0, {})
             /\ UNCHANGED <<nb, cell, stmt, env, results, err, arg, ret>>

\* xout2, yout2, info2 = odesys2.integrate([0, tend], y0, [mu], integrator='cvode',
\*                                         sparse=sparse, nderiv=nderiv)
SpIntegrate ==
    /\ InHelper("sp_integrate")
    /\ \E raised \in BOOLEAN, hasRoots \in BOOLEAN :
        LET o == Loc("odesys2").id
            i == Len(results) + 1
        IN  IF Missing({"tend", "y0", "mu"}) # {} THEN NameError
            ELSE IF raised THEN HelperRaise("integrate", o)
            ELSE /\ results' = Append(results,
                        NewResult(o, Pair("0", V("tend")), V("y0"), V("mu"),
                                  {"integrator", "sparse", "nderiv"}))
                 /\ objs' = [objs EXCEPT ![o].internal = i]
                 /\ frame' = [frame EXCEPT
                        !.locals["xout2"] = Out(i, "xout"),
                        !.locals["yout2"] = Out(i, "yout"),
                        !.locals["info2"] = Info(i, NewInfo(i, hasRoots)),
                        !.info0 = Info(i, NewInfo(i, hasRoots)),
                        !.calls = Append(@, "integrate")]
                 /\ pc' = "sp_pop_root"
                 /\ last' = Ev("integrate", o, i, {})
                 /\ UNCHANGED <<nb, cell, stmt, env, err, arg, ret>>

\* info2.pop('root_indices', None)
SpPopRoot ==
    /\ InHelper("sp_pop_root")
    /\ LET v == Loc("info2")
       IN  Step("sp_default",
                [frame EXCEPT !.locals["info2"] = Info(v.id, PopDefault(v.d, "root_indices"))],
                Ev("pop", 0, v.id, {v.id}))

\* if interpolate is None: interpolate = nderiv > 0
SpDefaultValue_always(given, nderiv) == PyBool(nderiv > 0)

SpDefaultValue(given, nderiv) == IF given = "None" THEN PyBool(nderiv > 0) ELSE given

SpDefault ==
    /\ InHelper("sp_default")
    /\ Step("sp_figure",
            [frame EXCEPT !.interpolate = SpDefaultValue(@, frame.args.nderiv)],
            Ev("default", 0, 0, {}))

\* plt.figure(figsize=(14, 8 if interpolate else 4))
\* ax1 = plt.subplot(2 if interpolate else 1, 1, 1)
SpFigure ==
    /\ InHelper("sp_figure")
    /\ IF Missing({"plt"}) # {} THEN NameError
       ELSE Step("sp_plot",
                 [frame EXCEPT !.height = IF Truthy(frame.interpolate) THEN 8 ELSE 4,
                               !.rows = IF Truthy(frame.interpolate) THEN 2 ELSE 1,
                               !.cols = 1,
                               !.panels = 1],
                 Ev("figure", 0, 0, {}))

\* xplot, yplot = odesys2.plot_result(interpolate=interpolate, m_lim=100, ...)
SpPlot ==
    /\ InHelper("sp_plot")
    /\ \E raised \in BOOLEAN :
        LET o == Loc("odesys2").id
            i == objs[o].internal
        IN  IF raised \/ i = 0 THEN HelperRaise("plot_result", o)
            ELSE Step("sp_ref",
                      [frame EXCEPT
                          !.locals["xplot"] = Plot(i, Truthy(frame.interpolate), "x"),
                          !.locals["yplot"] = Plot(i, Truthy(frame.interpolate), "y"),
                          !.passed = frame.interpolate,
                          !.calls = Append(@, "plot_result")],
                      Ev("plot_result", o, i, {i}))

\* if interpolate:
\*     xref, yref, inforef = odesys2.integrate(xplot, y0, [mu], integrator='cvode',
\*                                             force_predefined=True, nsteps=5000)
\*     (the reference curves are drawn over the first panel)
SpRefNeeded_always == TRUE

SpRefNeeded == Truthy(frame.interpolate)

SpRef ==
    /\ InHelper("sp_ref")
    /\ \E raised \in BOOLEAN, hasRoots \in BOOLEAN :
        LET o == Loc("odesys2").id
            j == Len(results) + 1
        IN  IF ~SpRefNeeded THEN Step("sp_pops", frame, Ev("skip", 0, 0, {}))
            ELSE IF Missing({"y0", "mu"}) # {} THEN NameError
            ELSE IF raised THEN HelperRaise("integrate", o)
            ELSE /\ results' = Append(results,
                        NewResult(o, Loc("xplot"), V("y0"), V("mu"),
                                  {"integrator", "force_predefined", "nsteps"}))
                 /\ objs' = [objs EXCEPT ![o].internal = j]
                 /\ frame' = [frame EXCEPT
                        !.locals["xref"] = Out(j, "xout"),
                        !.locals["yref"] = Out(j, "yout"),
                        !.locals["inforef"] = Info(j, NewInfo(j, hasRoots)),
                        !.calls = Append(@, "integrate")]
                 /\ pc' = "sp_error"
                 /\ last' = Ev("integrate", o, j, ResOf(Loc("xplot")))
                 /\ UNCHANGED <<nb, cell, stmt, env, err, arg, ret>>

\* ax2 = plt.subplot(2, 1, 2, sharex=ax1); ydiff = yplot - yref, plotted over xref
SpError ==
    /\ InHelper("sp_error")
    /\ Step("sp_pops",
            [frame EXCEPT !.panels = 2,
                          !.locals["ydiff"] = [t |-> "diff", a |-> Loc("yplot"),
                                               b |-> Loc("yref"), x |-> Loc("xref")]],
            Ev("error_panel", 0, 0, ResOf(Loc("yplot")) \cup ResOf(Loc("yref"))))

\* plt.xlabel('x'); info2.pop('internal_xout'); info2.pop('internal_yout')
SpPopKeys_one == <<"internal_xout">>

SpPopKeys == <<"internal_xout", "internal_yout">>

SpPops ==
    /\ InHelper("sp_pops")
    /\ LET v == Loc("info2")
       IN  IF ~(Range(SpPopKeys) \subseteq DOMAIN v.d) THEN HelperKeyError
           ELSE Step("sp_return",
                     [frame EXCEPT !.locals["info2"] = Info(v.id, PopAll(v.d, SpPopKeys))],
                     Ev("pop", 0, v.id, {v.id}))

\* return info2, xplot, yplot
SpReturn ==
    /\ InHelper("sp_return")
    /\ LET t == frame.targets
           rv == <<Loc("info2"), Loc("xplot"), Loc("yplot")>>
       IN  Return([frame EXCEPT !.returned = TRUE, !.retval = rv],
                  [n \in {t[1], t[2], t[3]} |->
                      IF n = t[1] THEN rv[1] ELSE IF n = t[2] THEN rv[2] ELSE rv[3]],
                  Ev("return", 0, 0, {}))

(***************************************************************************)
(* integrate_and_plot (transformations.ipynb)                              *)
(***************************************************************************)
\* plt.figure(figsize=(14,5))
IpFigure ==
    /\ InHelper("ip_figure")
    /\ IF Missing({"plt"}) # {} THEN NameError
       ELSE Step("ip_integrate", [frame EXCEPT !.height = 5, !.rows = 1],
                 Ev("figure", 0, 0, {}))

\* xout, yout, info = odesys.integrate(tout, y0, k, integrator=integrator, **kwargs)
IpIntegrate ==
    /\ InHelper("ip_integrate")
    /\ \E raised \in BOOLEAN, hasRoots \in BOOLEAN :
        LET o == frame.args.odesys
            i == Len(results) + 1
        IN  IF raised THEN HelperRaise("integrate", o)
            ELSE /\ results' = Append(results,
                        NewResult(o, frame.args.tout, frame.args.y0, frame.args.k,
                                  frame.args.kwargs \cup {"integrator"}))
                 /\ objs' = [objs EXCEPT ![o].internal = i]
                 /\ frame' = [frame EXCEPT
                        !.locals["xout"] = Out(i, "xout"),
                        !.locals["yout"] = Out(i, "yout"),
                        !.locals["info"] = Info(i, NewInfo(i, hasRoots)),
                        !.info0 = Info(i, NewInfo(i, hasRoots)),
                        !.calls = Append(@, "integrate")]
                 /\ pc' = "ip_plot1"
                 /\ last' = Ev("integrate", o, i, {})
                 /\ UNCHANGED <<nb, cell, stmt, env, err, arg, ret>>

\* The object the helper plots: its parameter odesys, which shadows the global.
IpPlotTarget_global == O("odesys")

IpPlotTarget == frame.args.odesys

\* odesys.plot_result(interpolate=interpolate) in panel number `panel`
IpPlot(panel, next) ==
    \E raised \in BOOLEAN :
        LET o == IpPlotTarget
            i == objs[o].internal
        IN  IF Missing({"plt"}) # {} THEN NameError
            ELSE IF raised \/ i = 0 THEN HelperRaise("plot_result", o)
            ELSE Step(next,
                      [frame EXCEPT !.cols = IF frame.args.stiffness THEN 3 ELSE 2,
                                    !.panels = panel,
                                    !.passed = frame.interpolate,
                                    !.calls = Append(@, "plot_result")],
                      Ev("plot_result", o, i, {i}))

\* plt.subplot(1, 3 if stiffness else 2, 1); odesys.plot_result(...); plt.legend(loc='best')
IpPlot1 == InHelper("ip_plot1") /\ IpPlot(1, "ip_plot2")

\* plt.subplot(1, 3 if stiffness else 2, 2); log axes; odesys.plot_result(...); plt.legend(...)
IpPlot2 == InHelper("ip_plot2") /\ IpPlot(2, "ip_stiffness")

\* if stiffness: ratios = odesys.stiffness()
IpStiffness ==
    /\ InHelper("ip_stiffness")
    /\ \E raised \in BOOLEAN :
        LET o == frame.args.odesys
            i == objs[o].internal
        IN  IF ~frame.args.stiffness THEN Step("ip_pops", frame, Ev("skip", 0, 0, {}))
            ELSE IF raised \/ i = 0 THEN HelperRaise("stiffness", o)
            ELSE Step("ip_ratios",
                      [frame EXCEPT !.locals["ratios"] = [t |-> "ratios", id |-> i],
                                    !.calls = Append(@, "stiffness")],
                      Ev("stiffness", o, i, {i}))

\* plt.subplot(1, 3, 3); plt.yscale('linear'); plt.plot(odesys.internal_xout, ratios)
IpRatios ==
    /\ InHelper("ip_ratios")
    /\ LET o == frame.args.odesys
           i == objs[o].internal
       IN  IF Missing({"plt"}) # {} THEN NameError
           ELSE Step("ip_pops", [frame EXCEPT !.panels = 3],
                     Ev("internal_xout", o, i, {i, Loc("ratios").id}))

\* info.pop('internal_xout'); info.pop('internal_yout')
IpPops ==
    /\ InHelper("ip_pops")
    /\ LET v == Loc("info")
           keys == <<"internal_xout", "internal_yout">>
       IN  IF ~(Range(keys) \subseteq DOMAIN v.d) THEN HelperKeyError
           ELSE Step("ip_return",
                     [frame EXCEPT !.locals["info"] = Info(v.id, PopAll(v.d, keys))],
                     Ev("pop", 0, v.id, {v.id}))

\* return len(xout), info, rmsd(yout[-1, :])
IpReturn ==
    /\ InHelper("ip_return")
    /\ LET i == Loc("yout").id
       IN  IF Missing({"rmsd", "ref", "np"}) # {} THEN NameError
           ELSE Return([frame EXCEPT !.returned = TRUE,
                                     !.retval = <<Loc("xout"), Loc("info"),
                                                  [t |-> "rmsd", id |-> i]>>],
                       <<>>,
                       Ev("rmsd", results[i].obj, i,
                          {i} \cup ResOf(Loc("xout")) \cup ResOf(Loc("info"))))

(***************************************************************************)
(* The notebooks run top to bottom.                                        *)
(***************************************************************************)
Init ==
    /\ nb \in {"vdp", "trans"}
    /\ cell = FirstCell(nb) /\ stmt = 1 /\ pc = "top"
    /\ env = [n \in AllNames |-> Unbound]
    /\ objs = <<>> /\ results = <<>>
    /\ frame = NoFrame /\ err = NoErr /\ last = NoOp
    /\ arg = <<>> /\ ret = <<>>

TopLevel == TopBind \/ TopUse \/ TopConstruct \/ TopIntegrate \/ TopPlot \/ TopPop \/ TopRmsd

Helper ==
    \/ SpConstruct \/ SpIntegrate \/ SpPopRoot \/ SpDefault \/ SpFigure \/ SpPlot
    \/ SpRef \/ SpError \/ SpPops \/ SpReturn
    \/ IpFigure \/ IpIntegrate \/ IpPlot1 \/ IpPlot2 \/ IpStiffness \/ IpRatios
    \/ IpPops \/ IpReturn

Next == TopLevel \/ TopCall \/ Helper

Spec == Init /\ [][Next]_vars

(***************************************************************************)
(* The helpers called with arguments of any value: the cells up to the     *)
(* helper's definition run as written, then the helper is called.          *)
(***************************************************************************)
IsCallCell(n, c) == \E i \in DOMAIN Program(n, c) : Program(n, c)[i].k = "call"
FirstCallCell(n) == Min({c \in CodeCells(n) : IsCallCell(n, c)})

Prelude == Running /\ cell < FirstCallCell(nb) /\ TopLevel

AnyCallSp ==
    /\ Running /\ nb = "vdp" /\ pc = "top"
    /\ cell = FirstCallCell(nb) /\ stmt <= MaxCalls
    /\ \E sparse \in {"-1", "0"}, roots \in {"None", "exprs"},
          nderiv \in 0..MaxNderiv, interpolate \in {"None", "True", "False"} :
        /\ frame' = NewFrame("solve_and_plot",
                             SpArgs(sparse, roots, nderiv, interpolate, {}),
                             SpTargets, TRUE)
        /\ pc' = Entry("solve_and_plot")
        /\ last' = Ev("call", 0, 0, {})
        /\ UNCHANGED <<nb, cell, stmt, env, objs, results, err, arg, ret>>

AnyCallIp ==
    /\ Running /\ nb = "trans" /\ pc = "top"
    /\ cell = FirstCallCell(nb) /\ stmt <= MaxCalls
    /\ \E tout \in {Linspace("0", V("tend"), "50"), Pair("1e-12", V("tend"))},
          k \in {V("k"), <<"7", "3", "2", "1">>},
          interpolate \in BOOLEAN, stiffness \in BOOLEAN :
        /\ frame' = NewFrame("integrate_and_plot",
                             IpArgs(O("odesys"), "cvode", tout, V("y0"), k,
                                    interpolate, stiffness, {}),
                             <<>>, TRUE)
        /\ pc' = Entry("integrate_and_plot")
        /\ last' = Ev("call", 0, 0, {})
        /\ UNCHANGED <<nb, cell, stmt, env, objs, results, err, arg, ret>>

NextAnyCall == Prelude \/ AnyCallSp \/ AnyCallIp \/ Helper

SpecAnyCall == Init /\ [][NextAnyCall]_vars

(***************************************************************************)
(* What the claims speak of.                                               *)
(***************************************************************************)
ObjectReads == {"plot_result", "stiffness", "internal_xout"}

Count(q, x) == Cardinality({i \in DOMAIN q : q[i] = x})

\* The time an integration ends at: the last point of its grid.
RECURSIVE EndOf(_)
EndOf(grid) == IF "form" \in DOMAIN grid THEN grid.end ELSE EndOf(results[grid.id].grid)

\* The rate constants of the four decay steps of a bundle's system: f takes
\* them as its parameters, f2 takes them after the initial amount p[0].
Rates(r) == IF objs[r.obj].of = "f2" THEN PySliceFrom(r.params, 1) ELSE r.params

\* Whether interpolation is in effect for the arguments of a call of solve_and_plot.
InEffect(a) == IF a.interpolate = "None" THEN a.nderiv > 0 ELSE a.interpolate = "True"

(***************************************************************************)
(* C1: for every x, y = [y0, y1] and p = [mu], vdp1(x, y, p) has exactly   *)
(* two components, the first y1, the second mu*(1 - y0^2)*y1 - y0, and the *)
(* result is the same for every x.                                         *)
(***************************************************************************)
C1_Vdp1IsVanDerPol ==
    ret # Pending =>
        LET y0 == arg.y[1]
            y1 == arg.y[2]
            mu == arg.p[1]
        IN  /\ Len(ret.v) = 2
            /\ ret.v[1] = y1
            /\ ret.v[2] = mu * (1 - y0 * y0) * y1 - y0
            /\ \A x \in 0..MaxX : vdp1(x, arg.y, arg.p) = ret.v

C1_Witness ==
    /\ ret # Pending
    /\ arg.x = 1 /\ arg.y = <<2, 1>> /\ arg.p = <<3>>
    /\ ret.v = <<1, 0 - 11>>

(***************************************************************************)
(* C10: for a vector x of n components, 1 <= n <= 4, rmsd(x) is the square *)
(* root of the sum over i in 0..n-1 of (ref[4-n+i] - x[i])^2: x[i] is      *)
(* paired with reference component 4-n+i and the sum is not divided by n.  *)
(***************************************************************************)
RECURSIVE C10_TrailingSum(_, _)
C10_TrailingSum(x, i) ==
    \* sum over the 0-based indices i..n-1
    LET n == Len(x)
    IN  IF i >= n THEN 0
        ELSE (ref[(4 - n + i) + 1] - x[i + 1]) * (ref[(4 - n + i) + 1] - x[i + 1])
             + C10_TrailingSum(x, i + 1)

C10_RmsdTrailingReference ==
    (ret # Pending /\ Len(arg.x) \in 1..4) =>
        ret = [kind |-> "value", sqrt |-> C10_TrailingSum(arg.x, 0)]

C10_Witness ==
    /\ ret # Pending
    /\ arg.x = <<1, 0, 2>>
    /\ ret = [kind |-> "value", sqrt |-> 854 * 854 + 3080 * 3080 + 6054 * 6054]

(***************************************************************************)
(* C2: construct comes before integrate and integrate before every         *)
(* plot_result, stiffness and internal_xout read on the same object; an    *)
(* object is constructed from a right-hand side that is bound; no          *)
(* statement evaluates a name that is not bound.                           *)
(***************************************************************************)
C2_DefineConstructIntegratePlot ==
    /\ err.kind # "NameError"
    /\ (last.op = "construct" /\ last.obj # 0) =>
            /\ last.obj \in 1..Len(objs)
            /\ env[objs[last.obj].of].t = "code"
    /\ last.op = "integrate" => last.obj \in 1..Len(objs)
    /\ last.op \in ObjectReads =>
            \E i \in 1..Len(results) : results[i].obj = last.obj

C2_Witness ==
    /\ nb = "trans" /\ last.cell = 31 /\ last.op = "internal_xout"
    /\ objs[last.obj].cls = "PartiallySolvedSystem"
    /\ err = NoErr

(***************************************************************************)
(* C3 as stated: what plot_result, stiffness and the internal_xout read    *)
(* work on is a bundle that some notebook or local variable holds (it was  *)
(* passed on through a returned value), never one that only the object     *)
(* kept.                                                                   *)
(***************************************************************************)
C3_OnlyBoundValues ==
    (last.op \in ObjectReads /\ last.res # 0) => last.res \in last.bound

(***************************************************************************)
(* C3 amended: plot_result, stiffness and the internal_xout read work on   *)
(* the bundle that the object kept from its own most recent integrate      *)
(* call, which is the integrate call executed last before them, in the     *)
(* same cell, whether or not a variable holds that bundle.                 *)
(***************************************************************************)
C3_ReadsWhatTheObjectKept ==
    (last.op \in ObjectReads /\ last.res # 0) =>
        /\ last.res = objs[last.obj].internal
        /\ last.res = Len(results)
        /\ results[last.res].obj = last.obj
        /\ results[last.res].cell = last.cell

C3_Witness ==
    /\ nb = "vdp" /\ last.cell = 6 /\ last.op = "plot_result"
    /\ last.res = 1 /\ last.res \notin last.bound
    /\ env["xout"] = Plot(1, FALSE, "x")

(***************************************************************************)
(* C4: a statement reads data of a result bundle only in the cell whose    *)
(* integrate call created the bundle.                                      *)
(***************************************************************************)
C4_BundlesReadInTheirCell ==
    \A r \in last.reads : r # 0 => results[r].cell = last.cell

C4_Witness ==
    /\ nb = "vdp" /\ last.cell = 11 /\ last.op = "use"
    /\ last.reads # {}
    /\ \E r \in 1..Len(results) : results[r].cell = 9
    /\ env["info"].id \in last.reads

(***************************************************************************)
(* C5: when a library call inside a helper raises, that error leaves the   *)
(* helper and the calling cell: the run ends with it at the statement that *)
(* raised, the helper has returned nothing and no later statement of the   *)
(* helper has run.                                                         *)
(***************************************************************************)
C5_ErrorsPropagate ==
    (frame.fn # "none" /\ frame.raisedAt # "none") =>
        /\ err = [kind |-> "LibraryError", op |-> frame.calls[Len(frame.calls)],
                  cell |-> cell, at |-> frame.raisedAt]
        /\ pc = frame.raisedAt
        /\ last.op = err.op
        /\ ~frame.returned /\ frame.retval = <<>>
        /\ \A n \in {"info2", "info"} \cap DOMAIN frame.locals :
              Loc(n) # Unbound =>
                  {"internal_xout", "internal_yout"} \subseteq DOMAIN Loc(n).d

C5_Witness ==
    /\ frame.fn = "solve_and_plot" /\ frame.raisedAt = "sp_ref"
    /\ err.kind = "LibraryError" /\ err.op = "integrate"
    /\ frame.panels = 1 /\ env["info"] = Unbound

(***************************************************************************)
(* C6: every error that rmsd reports is that of the final state of an      *)
(* integration that ends at t = tend = 1 and uses the rate constants       *)
(* 7, 3, 2, 0 that ref was computed for.                                   *)
(***************************************************************************)
C6_RmsdAgainstItsOwnSystem ==
    last.op = "rmsd" =>
        /\ EndOf(results[last.res].grid) = "1.0"
        /\ Rates(results[last.res]) = <<"7", "3", "2", "0">>

(***************************************************************************)
(* C7: in solve_and_plot, interpolation is used exactly when nderiv > 0 if *)
(* interpolate is None, and as given if it is True or False; that value is *)
(* passed to plot_result and decides the figure's layout.                  *)
(***************************************************************************)
C7_InterpolateDefault ==
    frame.fn = "solve_and_plot" =>
        /\ frame.passed # "unset" => frame.passed = PyBool(InEffect(frame.args))
        /\ frame.rows # 0 =>
              /\ frame.rows = (IF InEffect(frame.args) THEN 2 ELSE 1)
              /\ frame.height = (IF InEffect(frame.args) THEN 8 ELSE 4)
        /\ \A n \in {"xplot", "yplot"} :
              Loc(n) # Unbound => Loc(n).interp = InEffect(frame.args)

C7_Witness ==
    /\ frame.fn = "solve_and_plot"
    /\ frame.args.interpolate = "False" /\ frame.args.nderiv = 2
    /\ frame.passed = "False" /\ frame.rows = 1 /\ frame.height = 4

(***************************************************************************)
(* C8: a call of solve_and_plot that returns has, without interpolation,   *)
(* called integrate once and drawn one panel; with interpolation it has    *)
(* called integrate twice, the second time after plot_result, on the grid  *)
(* xplot that plot_result returned (force_predefined), with the same y0    *)
(* and mu, and has drawn the error yplot - yref over that grid.            *)
(***************************************************************************)
C8_ReferenceIffInterpolation ==
    (frame.fn = "solve_and_plot" /\ frame.returned) =>
        IF InEffect(frame.args)
        THEN LET r1 == results[Loc("xout2").id]
                 r2 == results[Loc("xref").id]
             IN  /\ frame.calls = <<"construct", "integrate", "plot_result", "integrate">>
                 /\ frame.panels = 2
                 /\ Loc("xref").id = Loc("xout2").id + 1
                 /\ r2.grid = Loc("xplot") /\ r2.grid = frame.retval[2]
                 /\ "force_predefined" \in r2.kw
                 /\ r2.obj = r1.obj /\ r2.y0 = r1.y0 /\ r2.params = r1.params
                 /\ Loc("ydiff") = [t |-> "diff", a |-> Loc("yplot"),
                                    b |-> Out(Loc("xref").id, "yout"),
                                    x |-> Out(Loc("xref").id, "xout")]
        ELSE /\ frame.calls = <<"construct", "integrate", "plot_result">>
             /\ frame.panels = 1
             /\ Loc("ydiff") = Unbound /\ Loc("yref") = Unbound

C8_Witness ==
    /\ frame.fn = "solve_and_plot" /\ frame.returned
    /\ frame.args.interpolate = "True" /\ frame.args.nderiv = 0
    /\ Count(frame.calls, "integrate") = 2 /\ frame.panels = 2

(***************************************************************************)
(* C9: the diagnostics a helper returns are those of its first integrate   *)
(* call without 'internal_xout' and 'internal_yout' (solve_and_plot: also  *)
(* without 'root_indices'); every other entry is as integrate returned it. *)
(***************************************************************************)
C9_ReturnedDiagnostics ==
    (frame.fn # "none" /\ frame.returned) =>
        LET sp == frame.fn = "solve_and_plot"
            got == IF sp THEN frame.retval[1] ELSE frame.retval[2]
            first == IF sp THEN Loc("xout2").id ELSE Loc("xout").id
            gone == {"internal_xout", "internal_yout"}
                        \cup (IF sp THEN {"root_indices"} ELSE {})
        IN  /\ got.t = "info"
            /\ got.id = first /\ frame.info0.id = first
            /\ sp => (Loc("inforef") # Unbound => Loc("inforef").id # got.id)
            /\ DOMAIN got.d = (DOMAIN frame.info0.d) \ gone
            /\ \A key \in DOMAIN got.d : got.d[key] = frame.info0.d[key]
            /\ sp => env["info"] = got

C9_Witness ==
    /\ frame.fn = "solve_and_plot" /\ frame.returned
    /\ "root_indices" \in DOMAIN frame.info0.d
    /\ DOMAIN frame.retval[1].d = {"success", "nfev"}
    /\ Loc("inforef") # Unbound

====
